---- MODULE Spec2Model ----
(***************************************************************************)
(* Model of the interaction controller of src/app/(tabs)/index.tsx (the    *)
(* App component): the four pieces of React state, the handlePress /       *)
(* startListening / stopListening / sendToServer handlers split at their   *)
(* awaits, and the three speech callbacks registered on the Voice object.  *)
(*                                                                         *)
(* All handlers run on one JavaScript thread, so every action below is the *)
(* code that runs between two awaits.  A handler created by a render reads *)
(* the state of that render (a closure): handlePress reads isLoading,      *)
(* isListening and recognizedText when it is invoked and keeps reading    *)
(* those same values after its await.  The press is taken to invoke the    *)
(* handler of the latest render, i.e. of the current state.                *)
(***************************************************************************)
EXTENDS Naturals, Sequences, FiniteSets

\* ---------------------------------------------------------------- bounds
\* number of activations (presses of the talk button) in a behaviour
MaxPress == 3
\* longest candidate list carried by a speech result event
MaxCandidates == 2

\* ------------------------------------------------------------- constants
\* line 112: reply shown when the payload has no usable reply
FallbackReply == "Sorry, I couldn't get a response."
\* lines 115-117: reply shown when the request fails
ConnectivityError == "I'm having trouble connecting to my brain. Please check the server."

\* transcripts the speech engine may report (the empty string is a string)
Transcripts == {"", "I feel tired", "hello"}
\* reply texts the server may put in the reply field
ReplyTexts == {"", "Let's talk about that."}

\* SpeechResultsEvent: value is optional, an ordered list of candidates
CandidateLists == UNION {[1..n -> Transcripts] : n \in 0..MaxCandidates}
SpeechResultsEvents ==
    {[hasValue |-> FALSE, value |-> <<>>]}
        \cup {[hasValue |-> TRUE, value |-> v] : v \in CandidateLists}

\* what response.json() can resolve to: null, or an object with or without
\* a reply field
NullPayload == [isObject |-> FALSE, hasReply |-> FALSE, reply |-> ""]
Payloads ==
    {NullPayload, [isObject |-> TRUE, hasReply |-> FALSE, reply |-> ""]}
        \cup {[isObject |-> TRUE, hasReply |-> TRUE, reply |-> r] : r \in ReplyTexts}

\* JavaScript truthiness of a string: only the empty string is falsy
Truthy(s) == s # ""

\* variant: data.reply ?? fallback, which keeps an empty reply
ReplyOrFallback_Nullish(data) ==
    IF data.hasReply THEN data.reply ELSE FallbackReply

\* data.reply || fallback (line 112); an absent field reads as undefined
ReplyOrFallback(data) ==
    IF data.hasReply /\ Truthy(data.reply) THEN data.reply ELSE FallbackReply

\* ------------------------------------------------------------------ state
VARIABLES
    isLoading,       \* useState(false), line 32
    isListening,     \* useState(false), line 33
    aiReply,         \* useState(""), line 34
    recognizedText,  \* useState(""), line 35
    task,            \* task[i]: the i-th invocation of handlePress
    presses,         \* number of activations delivered so far
    nStart,          \* calls of Voice.start issued
    nStop,           \* calls of Voice.stop issued
    nSend,           \* calls of fetch(SERVER_URL) issued
    event,           \* the input delivered by the last step, where observed
    mounted,         \* the component is mounted (effect of line 38 active)
    listeners,       \* the three Voice.onSpeech* handlers are registered
    cleanup          \* position of the effect cleanup (lines 57-59)

vars == <<isLoading, isListening, aiReply, recognizedText, task, presses,
          nStart, nStop, nSend, event, mounted, listeners, cleanup>>

\* inputs of the controller: the activation, the three speech events and
\* the settlements of the promises it awaits
EventKinds == {"none", "press", "result", "end", "error",
               "startResolved", "startRejected", "stopResolved",
               "stopRejected", "fetchResolved", "fetchRejected",
               "jsonResolved", "jsonRejected"}
Ev(kind) == [kind |-> kind, hasValue |-> FALSE, value |-> <<>>]
ResultEv(e) == [kind |-> "result", hasValue |-> e.hasValue, value |-> e.value]

\* cleanup: idle (mounted), destroying (Voice.destroy() pending),
\* removed (then-callback ran), unhandled (destroy rejected, nothing chained)
CleanupPositions == {"idle", "destroying", "removed", "unhandled"}

\* position of an invocation of handlePress:
\*   none        not invoked yet
\*   ignored     returned at the isLoading guard (line 86)
\*   awaitStart  suspended at await Voice.start (line 68)
\*   awaitStop   suspended at await Voice.stop (line 77)
\*   fetch       sendToServer suspended at await fetch (line 106)
\*   json        sendToServer suspended at await response.json() (line 111)
\*   done        ran to completion
\*   thrown      ended with an error that left the controller
Positions == {"none", "ignored", "awaitStart", "awaitStop", "fetch", "json",
              "done", "thrown"}

Tasks == 1..MaxPress

\* text: recognizedText as seen by the invocation's closure;
\* sent: this invocation has called sendToServer
\* message: the argument of that call ("" while there is none)
\* result: how the Reply Capability call settled; data: what response.json()
\* resolved to (read only when result = "jsonResolved")
Results == {"none", "fetchRejected", "jsonRejected", "jsonResolved"}
NoTask == [pc |-> "none", text |-> "", sent |-> FALSE, message |-> "",
           result |-> "none", data |-> NullPayload]

TypeOK ==
    /\ isLoading \in BOOLEAN
    /\ isListening \in BOOLEAN
    /\ aiReply \in ReplyTexts \cup {FallbackReply, ConnectivityError}
    /\ recognizedText \in Transcripts
    /\ task \in [Tasks -> [pc : Positions, text : Transcripts, sent : BOOLEAN,
                         message : Transcripts, result : Results,
                         data : Payloads]]
    /\ presses \in 0..MaxPress
    /\ nStart \in 0..MaxPress
    /\ nStop \in 0..MaxPress
    /\ nSend \in 0..MaxPress
    /\ event \in [kind : EventKinds, hasValue : BOOLEAN, value : CandidateLists]
    /\ mounted \in BOOLEAN
    /\ listeners \in BOOLEAN
    /\ cleanup \in CleanupPositions

Init ==
    /\ isLoading = FALSE
    /\ isListening = FALSE
    /\ aiReply = ""
    /\ recognizedText = ""
    /\ task = [i \in Tasks |-> NoTask]
    /\ presses = 0
    /\ nStart = 0
    /\ nStop = 0
    /\ nSend = 0
    /\ event = Ev("none")
    /\ mounted = TRUE
    /\ listeners = TRUE
    /\ cleanup = "idle"

\* invocations whose Reply Capability call is in flight
Outstanding == {i \in Tasks : task[i].pc \in {"fetch", "json"}}

\* -------------------------------------------------------- speech callbacks
\* The listeners are registered on mount (lines 53-55); the engine delivers
\* events once a session has been requested.
\* variant: onSpeechResults keeps the last candidate
onSpeechResults_LastCandidate(e) ==
    /\ nStart > 0
    /\ recognizedText' =
         IF e.hasValue /\ Len(e.value) > 0
           THEN e.value[Len(e.value)] ELSE recognizedText
    /\ UNCHANGED <<isLoading, isListening, aiReply, task, presses,
                   nStart, nStop, nSend>>

onSpeechResults(e) ==
    /\ nStart > 0
    /\ recognizedText' =
         IF e.hasValue /\ Len(e.value) > 0 THEN e.value[1] ELSE recognizedText
    /\ UNCHANGED <<isLoading, isListening, aiReply, task, presses,
                   nStart, nStop, nSend>>

\* variant: onSpeechEnd also clears the transcript
onSpeechEnd_ClearsText ==
    /\ nStart > 0
    /\ isListening' = FALSE
    /\ recognizedText' = ""
    /\ UNCHANGED <<isLoading, aiReply, task, presses, nStart, nStop, nSend>>

onSpeechEnd ==
    /\ nStart > 0
    /\ isListening' = FALSE
    /\ UNCHANGED <<isLoading, aiReply, recognizedText, task, presses,
                   nStart, nStop, nSend>>

\* variant: onSpeechError shows the failure to the user
onSpeechError_ShowsError ==
    /\ nStart > 0
    /\ isListening' = FALSE
    /\ aiReply' = ConnectivityError
    /\ UNCHANGED <<isLoading, recognizedText, task, presses,
                   nStart, nStop, nSend>>

onSpeechError ==
    /\ nStart > 0
    /\ isListening' = FALSE
    /\ UNCHANGED <<isLoading, aiReply, recognizedText, task, presses,
                   nStart, nStop, nSend>>

\* ------------------------------------------------------------- handlers
\* variant: startListening without setAiReply("")
startListening_KeepReply(i) ==
    /\ recognizedText' = ""
    /\ isListening' = TRUE
    /\ nStart' = nStart + 1
    /\ task' = [task EXCEPT ![i] =
                  [NoTask EXCEPT !.pc = "awaitStart", !.text = recognizedText]]
    /\ UNCHANGED <<isLoading, aiReply, nStop, nSend>>

\* startListening up to its await (lines 63-68)
startListening(i) ==
    /\ recognizedText' = ""
    /\ aiReply' = ""
    /\ isListening' = TRUE
    /\ nStart' = nStart + 1
    /\ task' = [task EXCEPT ![i] =
                  [NoTask EXCEPT !.pc = "awaitStart", !.text = recognizedText]]
    /\ UNCHANGED <<isLoading, nStop, nSend>>

\* stopListening up to its await (lines 75-77)
stopListening(i) ==
    /\ nStop' = nStop + 1
    /\ task' = [task EXCEPT ![i] =
                  [NoTask EXCEPT !.pc = "awaitStop", !.text = recognizedText]]
    /\ UNCHANGED <<isLoading, isListening, aiReply, recognizedText,
                   nStart, nSend>>

\* sendToServer up to its await of fetch (lines 100-106)
sendToServer(i, message) ==
    /\ isLoading' = TRUE
    /\ aiReply' = ""
    /\ nSend' = nSend + 1
    /\ task' = [task EXCEPT ![i].pc = "fetch", ![i].sent = TRUE,
                           ![i].message = message]
    /\ UNCHANGED <<isListening, recognizedText, nStart, nStop>>

\* variant: handlePress sends a transcript left over by an ended session
handlePress_SendsLeftover ==
    /\ presses < MaxPress
    /\ presses' = presses + 1
    /\ LET i == presses + 1 IN
         IF isLoading
           THEN /\ task' = [task EXCEPT ![i] =
                              [NoTask EXCEPT !.pc = "ignored",
                                              !.text = recognizedText]]
                /\ UNCHANGED <<isLoading, isListening, aiReply, recognizedText,
                               nStart, nStop, nSend>>
           ELSE IF isListening
                  THEN stopListening(i)
                  ELSE IF Truthy(recognizedText)
                         THEN sendToServer(i, recognizedText)
                         ELSE startListening(i)

\* variant: handlePress without the isLoading guard
handlePress_NoGuard ==
    /\ presses < MaxPress
    /\ presses' = presses + 1
    /\ LET i == presses + 1 IN
         IF isListening THEN stopListening(i) ELSE startListening(i)

\* handlePress up to its first await (lines 85-96)
handlePress ==
    /\ presses < MaxPress
    /\ presses' = presses + 1
    /\ LET i == presses + 1 IN
         IF isLoading
           THEN /\ task' = [task EXCEPT ![i] =
                              [NoTask EXCEPT !.pc = "ignored",
                                              !.text = recognizedText]]
                /\ UNCHANGED <<isLoading, isListening, aiReply, recognizedText,
                               nStart, nStop, nSend>>
           ELSE IF isListening
                  THEN stopListening(i)
                  ELSE startListening(i)

\* variant: the catch of startListening only logs
startSettles_NoRevert(i, ok) ==
    /\ task[i].pc = "awaitStart"
    /\ task' = [task EXCEPT ![i].pc = "done"]
    /\ UNCHANGED <<isLoading, isListening, aiReply, recognizedText, presses,
                   nStart, nStop, nSend>>

\* Voice.start settles: rest of startListening and of handlePress
\* (lines 68-73, 96-98)
startSettles(i, ok) ==
    /\ task[i].pc = "awaitStart"
    /\ isListening' = IF ok THEN isListening ELSE FALSE
    /\ task' = [task EXCEPT ![i].pc = "done"]
    /\ UNCHANGED <<isLoading, aiReply, recognizedText, presses,
                   nStart, nStop, nSend>>

\* variant: the catch of stopListening calls Voice.stop again
stopSettles_RetriesStop(i, ok) ==
    /\ task[i].pc = "awaitStop"
    /\ IF ~ok /\ nStop < MaxPress
         THEN /\ nStop' = nStop + 1
              /\ UNCHANGED <<isLoading, isListening, aiReply, recognizedText,
                             task, nStart, nSend>>
         ELSE IF Truthy(task[i].text)
                THEN sendToServer(i, task[i].text)
                ELSE /\ task' = [task EXCEPT ![i].pc = "done"]
                     /\ UNCHANGED <<isLoading, isListening, aiReply,
                                    recognizedText, nStart, nStop, nSend>>
    /\ UNCHANGED presses

\* Voice.stop settles: rest of stopListening (lines 77-82, resolved or
\* rejected alike) and of handlePress (lines 91-93), which reads the
\* recognizedText of its own closure
stopSettles(i, ok) ==
    /\ task[i].pc = "awaitStop"
    /\ IF Truthy(task[i].text)
         THEN sendToServer(i, task[i].text)
         ELSE /\ task' = [task EXCEPT ![i].pc = "done"]
              /\ UNCHANGED <<isLoading, isListening, aiReply, recognizedText,
                             nStart, nStop, nSend>>
    /\ UNCHANGED presses

\* variant: the catch of sendToServer without the finally
sendFailed_NoFinally(i, how, data) ==
    /\ aiReply' = ConnectivityError
    /\ task' = [task EXCEPT ![i].pc = "done", ![i].result = how,
                           ![i].data = data]
    /\ UNCHANGED <<isLoading, isListening, recognizedText, presses,
                   nStart, nStop, nSend>>

\* catch and finally of sendToServer (lines 113-120)
sendFailed(i, how, data) ==
    /\ aiReply' = ConnectivityError
    /\ isLoading' = FALSE
    /\ task' = [task EXCEPT ![i].pc = "done", ![i].result = how,
                           ![i].data = data]
    /\ UNCHANGED <<isListening, recognizedText, presses, nStart, nStop, nSend>>

\* fetch settles (lines 106-111)
fetchSettles(i, ok) ==
    /\ task[i].pc = "fetch"
    /\ IF ok
         THEN /\ task' = [task EXCEPT ![i].pc = "json"]
              /\ UNCHANGED <<isLoading, isListening, aiReply, recognizedText,
                             presses, nStart, nStop, nSend>>
         ELSE sendFailed(i, "fetchRejected", NullPayload)

\* response.json() rejects: the body does not parse (lines 111, 113-120)
jsonRejects(i) ==
    /\ task[i].pc = "json"
    /\ sendFailed(i, "jsonRejected", NullPayload)

\* response.json() resolves with data (lines 111-112, 118-120); reading
\* data.reply of null throws a TypeError inside the try
jsonResolves(i, data) ==
    /\ task[i].pc = "json"
    /\ IF data.isObject
         THEN /\ aiReply' = ReplyOrFallback(data)
              /\ isLoading' = FALSE
              /\ task' = [task EXCEPT ![i].pc = "done",
                                     ![i].result = "jsonResolved",
                                     ![i].data = data]
              /\ UNCHANGED <<isListening, recognizedText, presses,
                             nStart, nStop, nSend>>
         ELSE sendFailed(i, "jsonResolved", data)

\* a step of the mounted controller whose input is not recorded
Unobserved == UNCHANGED <<event, mounted, listeners, cleanup>>

Next ==
    \/ handlePress /\ Unobserved
    \/ \E e \in SpeechResultsEvents : onSpeechResults(e) /\ Unobserved
    \/ onSpeechEnd /\ Unobserved
    \/ onSpeechError /\ Unobserved
    \/ \E i \in Tasks, ok \in BOOLEAN : startSettles(i, ok) /\ Unobserved
    \/ \E i \in Tasks, ok \in BOOLEAN : stopSettles(i, ok) /\ Unobserved
    \/ \E i \in Tasks, ok \in BOOLEAN : fetchSettles(i, ok) /\ Unobserved
    \/ \E i \in Tasks : jsonRejects(i) /\ Unobserved
    \/ \E i \in Tasks, data \in Payloads : jsonResolves(i, data) /\ Unobserved

Spec == Init /\ [][Next]_vars

\* ------------------------------------------------ the observed controller
\* The same steps, each recording the input it was given, for the claims
\* that speak of a particular callback or of the outcome of a settlement.
\* number of activations in an observed behaviour
MaxObservedPress == 2

Observe(ev) == event' = ev /\ UNCHANGED <<mounted, listeners, cleanup>>

ObservedNext ==
    \/ presses < MaxObservedPress /\ handlePress /\ Observe(Ev("press"))
    \/ \E e \in SpeechResultsEvents : onSpeechResults(e) /\ Observe(ResultEv(e))
    \/ onSpeechEnd /\ Observe(Ev("end"))
    \/ onSpeechError /\ Observe(Ev("error"))
    \/ \E i \in Tasks, ok \in BOOLEAN :
          startSettles(i, ok)
            /\ Observe(Ev(IF ok THEN "startResolved" ELSE "startRejected"))
    \/ \E i \in Tasks, ok \in BOOLEAN :
          stopSettles(i, ok)
            /\ Observe(Ev(IF ok THEN "stopResolved" ELSE "stopRejected"))
    \/ \E i \in Tasks, ok \in BOOLEAN :
          fetchSettles(i, ok)
            /\ Observe(Ev(IF ok THEN "fetchResolved" ELSE "fetchRejected"))
    \/ \E i \in Tasks : jsonRejects(i) /\ Observe(Ev("jsonRejected"))
    \/ \E i \in Tasks, data \in Payloads :
          jsonResolves(i, data) /\ Observe(Ev("jsonResolved"))

ObservedSpec == Init /\ [][ObservedNext]_vars

\* ------------------------------------------------------------ life cycle
\* unmount: React runs the cleanup returned by the effect (lines 57-59),
\* which calls Voice.destroy(); the component's state is discarded and is
\* not followed further
unmount ==
    /\ mounted
    /\ mounted' = FALSE
    /\ cleanup' = "destroying"
    /\ UNCHANGED <<isLoading, isListening, aiReply, recognizedText, task,
                   presses, nStart, nStop, nSend, event, listeners>>

\* Voice.destroy() settles (line 58): .then(Voice.removeAllListeners) has a
\* fulfilment callback only, so a rejection skips it and is left unhandled
destroySettles(ok) ==
    /\ cleanup = "destroying"
    /\ IF ok
         THEN listeners' = FALSE /\ cleanup' = "removed"
         ELSE listeners' = listeners /\ cleanup' = "unhandled"
    /\ UNCHANGED <<isLoading, isListening, aiReply, recognizedText, task,
                   presses, nStart, nStop, nSend, event, mounted>>

LifecycleNext ==
    \/ mounted /\ Next
    \/ unmount
    \/ \E ok \in BOOLEAN : destroySettles(ok)

LifecycleSpec == Init /\ [][LifecycleNext]_vars

\* ------------------------------------------------- steps, as seen in vars
\* the step is an activation
Activation == presses' = presses + 1
\* the step is the settlement of invocation i's Voice.stop
StopSettled(i) == task[i].pc = "awaitStop" /\ task'[i].pc # "awaitStop"
\* the step invokes the Reply Capability on behalf of invocation i
SendInvoked(i) == task[i].pc # "fetch" /\ task'[i].pc = "fetch"
\* the step is the settlement of invocation i's Reply Capability call
SendSettled(i) == task[i].pc \in {"fetch", "json"} /\ task'[i].pc = "done"
\* the step starts a new listening session
SessionStarted == nStart' = nStart + 1

\* ------------------------------------------------------------------ C1
\* C1: in every reachable state at most one Reply Capability call is
\* outstanding, for any interleaving of activations, speech callbacks and
\* settlements.
C1_AtMostOneOutstanding == Cardinality(Outstanding) <= 1

\* ------------------------------------------------------------------ C2
\* C2: isLoading is true in exactly the states in which a Reply Capability
\* call has been invoked and has not yet settled.
C2_LoadingIffOutstanding == isLoading <=> (Outstanding # {})

\* ------------------------------------------------------------------ C3
\* C3: an activation that occurs while isLoading is true changes none of
\* isLoading, isListening, recognizedText, aiReply and issues no start(),
\* stop() or Reply Capability call; the invocation returns at once and no
\* other invocation is touched.
C3_ActivationWhileLoadingIsNoOp ==
    [][(Activation /\ isLoading) =>
          /\ UNCHANGED <<isLoading, isListening, recognizedText, aiReply>>
          /\ UNCHANGED <<nStart, nStop, nSend>>
          /\ task'[presses'].pc = "ignored"
          /\ \A j \in Tasks \ {presses'} : task'[j] = task[j]]_vars

\* an activation was delivered, and ignored, while a call is in flight
C3_Witness ==
    \E i \in Tasks :
        /\ task[i].pc = "ignored"
        /\ isLoading
        /\ Outstanding # {}

\* ------------------------------------------------------------------ C4
\* C4: when the stop() of an activation made while listening has settled
\* and recognizedText is then non-empty, that step makes exactly one Reply
\* Capability call, and its message is that recognizedText.
C4_SendsTextAtStopSettlement ==
    [][\A i \in Tasks :
          (StopSettled(i) /\ recognizedText # "") =>
              /\ nSend' = nSend + 1
              /\ task'[i].pc = "fetch"
              /\ task'[i].message = recognizedText]_vars

\* ------------------------------------------------------------------ C5
\* C5: once the stop() of an activation made while listening has settled,
\* resolved or rejected, isListening is false.
C5_StopSettlementClearsListening ==
    [][\A i \in Tasks : StopSettled(i) => isListening' = FALSE]_vars

\* ------------------------------------------------------------------ C6
\* C6: if recognizedText is empty when an activation stops a listening
\* session, then when its stop() has settled no Reply Capability call is
\* made, isLoading is false, aiReply is empty and isListening is false.
C6_EmptyTextReturnsToIdle ==
    [][\A i \in Tasks :
          (StopSettled(i) /\ task[i].text = "" /\ recognizedText = "") =>
              /\ nSend' = nSend
              /\ isLoading' = FALSE
              /\ aiReply' = ""
              /\ isListening' = FALSE]_vars

\* ------------------------------------------------------------------ C7
\* C7: an activation in Idle (isLoading and isListening both false) sets
\* recognizedText and aiReply to the empty string and isListening to true
\* in the very step that calls start(), leaving the invocation suspended
\* at the await of start().
C7_StartClearsBothTexts ==
    [][(Activation /\ ~isLoading /\ ~isListening) =>
          /\ recognizedText' = ""
          /\ aiReply' = ""
          /\ isListening' = TRUE
          /\ nStart' = nStart + 1
          /\ task'[presses'].pc = "awaitStart"]_vars

\* a session has just been started over a transcript and after a settled
\* reply, and both texts are empty
C7_Witness ==
    \E i, j \in Tasks :
        /\ j < i
        /\ task[j].sent /\ task[j].pc = "done"
        /\ task[i].pc = "awaitStart" /\ task[i].text # ""
        /\ recognizedText = "" /\ aiReply = "" /\ isListening

\* ------------------------------------------------------------------ C8
\* the step is an onResult: it changes recognizedText and nothing else
OnlyTextChanged ==
    UNCHANGED <<isLoading, isListening, aiReply, task, presses,
                nStart, nStop, nSend>>

\* C8 as stated: every step that takes aiReply, or recognizedText, from a
\* non-empty value to the empty string is the start of a listening session
\* and leaves both empty.
C8_ResetOnlyAtSessionStart ==
    [][(\/ aiReply # "" /\ aiReply' = ""
        \/ recognizedText # "" /\ recognizedText' = "") =>
          (SessionStarted /\ aiReply' = "" /\ recognizedText' = "")]_vars

\* C8 as amended: a step that takes aiReply from non-empty to empty is the
\* start of a listening session (both empty afterwards) or the invocation
\* of a Reply Capability call (recognizedText unchanged); a step that takes
\* recognizedText from non-empty to empty is the start of a listening
\* session (both empty afterwards) or an onResult that changes nothing else.
C8_ResetAtSessionStartOrSend ==
    [][/\ (aiReply # "" /\ aiReply' = "") =>
             \/ SessionStarted /\ recognizedText' = ""
             \/ /\ \E i \in Tasks : SendInvoked(i)
                /\ recognizedText' = recognizedText
       /\ (recognizedText # "" /\ recognizedText' = "") =>
             \/ SessionStarted /\ aiReply' = ""
             \/ OnlyTextChanged]_vars

\* within the one listening session a reply has settled and a later
\* invocation of sendToServer has cleared it
C8_Witness ==
    \E i, j \in Tasks :
        /\ i # j
        /\ nStart = 1
        /\ task[j].sent /\ task[j].pc = "done"
        /\ task[i].pc = "fetch"
        /\ aiReply = "" /\ recognizedText # ""

\* ------------------------------------------------------------------ C9
\* C9: when a Reply Capability call fails (fetch rejects or the body fails
\* to parse) the step sets aiReply to the connectivity-error message and
\* isLoading to false, leaves recognizedText and isListening unchanged, and
\* the invocation completes normally.
C9_FailureShowsConnectivityError ==
    [][\A i \in Tasks :
          (SendSettled(i)
             /\ task'[i].result \in {"fetchRejected", "jsonRejected"}) =>
              /\ aiReply' = ConnectivityError
              /\ isLoading' = FALSE
              /\ UNCHANGED <<recognizedText, isListening>>
              /\ task'[i].pc = "done"]_vars

\* both kinds of failure have happened and the last one is on display
C9_Witness ==
    \E i, j \in Tasks :
        /\ task[i].result = "fetchRejected"
        /\ task[j].result = "jsonRejected"
        /\ aiReply = ConnectivityError
        /\ ~isLoading

\* ----------------------------------------------------------------- C10
\* C10 as stated: when the call succeeds, aiReply becomes the payload's
\* reply if the payload has a reply field and the fallback reply if it has
\* none, and isLoading is false afterwards.
C10_ReplyFieldOrFallback ==
    [][\A i \in Tasks :
          (SendSettled(i) /\ task'[i].result = "jsonResolved") =>
              /\ aiReply' = IF task'[i].data.hasReply
                               THEN task'[i].data.reply
                               ELSE FallbackReply
              /\ isLoading' = FALSE]_vars

\* C10 as amended: when the call succeeds with a JSON object, aiReply
\* becomes the payload's reply if the payload has a non-empty reply field
\* and the fallback reply if the field is missing or empty; isLoading is
\* false after every successful call.
C10_NonEmptyReplyOrFallback ==
    [][\A i \in Tasks :
          (SendSettled(i) /\ task'[i].result = "jsonResolved") =>
              /\ task'[i].data.isObject =>
                    aiReply' = IF task'[i].data.hasReply
                                    /\ task'[i].data.reply # ""
                                 THEN task'[i].data.reply
                                 ELSE FallbackReply
              /\ isLoading' = FALSE]_vars

\* a reply text and the fallback for an empty reply field have both been
\* delivered
C10_Witness ==
    \E i, j \in Tasks :
        /\ task[i].result = "jsonResolved" /\ task[i].data.isObject
        /\ task[i].data.hasReply /\ task[i].data.reply = ""
        /\ task[j].result = "jsonResolved" /\ task[j].data.isObject
        /\ task[j].data.hasReply /\ task[j].data.reply # ""
        /\ aiReply \in {FallbackReply, task[j].data.reply}
        /\ ~isLoading

\* ----------------------------------------------------------------- C11
\* a Reply Capability call settles: fetch rejects, or response.json()
\* settles after fetch resolved
SettleReply ==
    /\ \/ \E i \in Tasks, ok \in BOOLEAN : fetchSettles(i, ok)
       \/ \E i \in Tasks : jsonRejects(i)
       \/ \E i \in Tasks, data \in Payloads : jsonResolves(i, data)
    /\ Unobserved

\* the transport settles every call it was given (the assumption of C11)
FairSpec == Spec /\ WF_vars(SettleReply)

\* C11: once a Reply Capability call has been invoked, isLoading does not
\* become false before that call has settled, and, the call settling
\* eventually, isLoading eventually becomes false.
C11_LoadingUntilSettledThenClears ==
    /\ [](Outstanding # {} => isLoading)
    /\ (isLoading ~> ~isLoading)

\* ----------------------------------------------------------------- C12
\* the step is the settlement of invocation i's Voice.start
StartSettled(i) == task[i].pc = "awaitStart" /\ task'[i].pc # "awaitStart"

\* C12 as stated: when the start() of an activation from Idle fails, the
\* controller is in Idle afterwards (isListening and isLoading false) with
\* recognizedText and aiReply empty, and no Reply Capability call is made.
C12_StartFailureReturnsToIdle ==
    [][\A i \in Tasks :
          (StartSettled(i) /\ event'.kind = "startRejected") =>
              /\ isListening' = FALSE
              /\ isLoading' = FALSE
              /\ recognizedText' = ""
              /\ aiReply' = ""
              /\ nSend' = nSend
              /\ ~task'[i].sent]_vars

\* C12 as amended: when the start() of an activation from Idle fails, the
\* step sets isListening to false and changes nothing else (recognizedText,
\* aiReply and isLoading keep the values they have at that moment), and the
\* failed activation ends without any start, stop or Reply Capability call.
C12_StartFailureOnlyRevertsListening ==
    [][\A i \in Tasks :
          (StartSettled(i) /\ event'.kind = "startRejected") =>
              /\ isListening' = FALSE
              /\ UNCHANGED <<isLoading, recognizedText, aiReply>>
              /\ UNCHANGED <<nStart, nStop, nSend>>
              /\ task'[i].pc = "done"
              /\ ~task'[i].sent]_vars

\* start() has just failed after a speech result had been delivered
C12_Witness ==
    /\ event.kind = "startRejected"
    /\ ~isListening
    /\ recognizedText # ""
    /\ \E i \in Tasks : task[i].pc = "done" /\ ~task[i].sent

\* ----------------------------------------------------------------- C13
\* C13: once the unmount cleanup has completed, whether destroy() resolved
\* or rejected, no speech listener remains registered.
C13_CleanupRemovesListeners ==
    cleanup \in {"removed", "unhandled"} => ~listeners

\* ----------------------------------------------------------------- C14
\* C14: isListening is true only while a successfully started session is
\* active: it becomes true only when start() has succeeded, and it is false
\* after an onEnd, an onError or the settlement of an explicit stop().
C14_ListeningOnlyWhileSessionActive ==
    [][/\ (~isListening /\ isListening') => event'.kind = "startResolved"
       /\ event'.kind \in {"end", "error", "stopResolved", "stopRejected"}
             => isListening' = FALSE]_vars

\* ----------------------------------------------------------------- C15
\* C15: an onEnd and an onError callback each set isListening to false and
\* change nothing else, neither isLoading, recognizedText, aiReply nor any
\* invocation or call, whatever the state they are delivered in.
C15_EndAndErrorOnlyClearListening ==
    [][event'.kind \in {"end", "error"} =>
          /\ isListening' = FALSE
          /\ UNCHANGED <<isLoading, recognizedText, aiReply>>
          /\ UNCHANGED <<task, presses, nStart, nStop, nSend>>]_vars

\* an onError has just been delivered while a call is in flight
C15_Witness ==
    /\ event.kind = "error"
    /\ isLoading /\ Outstanding # {}
    /\ ~isListening
    /\ recognizedText # "" /\ aiReply = ""

\* ----------------------------------------------------------------- C18
\* C18: an onResult sets recognizedText to the first candidate of its list
\* whatever the later candidates are, leaves recognizedText unchanged when
\* the list is absent or empty, and never changes isLoading, isListening
\* or aiReply.
C18_ResultKeepsFirstCandidate ==
    [][event'.kind = "result" =>
          /\ recognizedText' =
               IF event'.hasValue /\ Len(event'.value) > 0
                 THEN event'.value[1] ELSE recognizedText
          /\ UNCHANGED <<isLoading, isListening, aiReply>>]_vars

\* a result with two different candidates has just been delivered and the
\* first one is the transcript
C18_Witness ==
    /\ event.kind = "result"
    /\ event.hasValue /\ Len(event.value) = 2
    /\ event.value[1] # event.value[2]
    /\ recognizedText = event.value[1]

\* ----------------------------------------------------------------- C16
\* C16: after activate, onResult(t) with t non-empty, activate, and the
\* Reply Capability resolving with {reply: r}, r non-empty, the state is
\* aiReply = r, isListening = false, isLoading = false, and exactly one
\* Reply Capability call was made, with message t.
C16_ScenarioEndsIdleWithReply ==
    (/\ presses = 2 /\ nStart = 1 /\ nStop = 1
     /\ event.kind = "jsonResolved"
     /\ task[2].result = "jsonResolved"
     /\ task[2].data.isObject /\ task[2].data.hasReply
     /\ task[2].data.reply # ""
     /\ recognizedText # "" /\ task[2].text = recognizedText)
    => (/\ aiReply = task[2].data.reply
        /\ isListening = FALSE
        /\ isLoading = FALSE
        /\ nSend = 1
        /\ task[2].message = recognizedText)

\* ----------------------------------------------------------------- C17
\* the inputs that report a failure
Failures == {"startRejected", "stopRejected", "error", "fetchRejected",
             "jsonRejected"}
\* the step issues a call on the Speech or Reply Capability
CallIssued == nStart' # nStart \/ nStop' # nStop \/ nSend' # nSend

\* C17 as stated: the step that handles a failure (of start, of stop, a
\* speech error event, of the Reply Capability) issues no start(), stop()
\* or Reply Capability call, nor does any step after it that is not a new
\* activation; and an activation issues at most one Reply Capability call.
C17_NoCallAfterFailureUntilActivation ==
    [][/\ event'.kind \in Failures => ~CallIssued
       /\ (event.kind \in Failures /\ event'.kind # "press") => ~CallIssued
       /\ \A i \in Tasks : SendInvoked(i) => ~task[i].sent]_vars

\* C17 as amended: start() and stop() are issued only by an activation
\* step, one call per step; a Reply Capability call is issued only in the
\* step in which an activation's stop() settles, resolved or rejected, and
\* at most once per activation; the steps that handle a start failure, a
\* speech error event or a Reply Capability failure issue no call.
C17_CallsOnlyFromActivationFlow ==
    [][/\ (nStart' # nStart \/ nStop' # nStop) =>
             /\ event'.kind = "press"
             /\ nStart' + nStop' = nStart + nStop + 1
             /\ nSend' = nSend
       /\ nSend' # nSend =>
             /\ event'.kind \in {"stopResolved", "stopRejected"}
             /\ nSend' = nSend + 1
             /\ \E i \in Tasks :
                   StopSettled(i) /\ SendInvoked(i) /\ ~task[i].sent
       /\ event'.kind \in Failures \ {"stopRejected"} => ~CallIssued]_vars

\* stop() has just been rejected and the activation has sent its transcript
C17_Witness ==
    /\ event.kind = "stopRejected"
    /\ isLoading
    /\ \E i \in Tasks : task[i].pc = "fetch" /\ task[i].message # ""

\* ----------------------------------------------------------------- C19
\* C19: in every reachable state in which isListening is true, aiReply is
\* the empty string.
C19_NoReplyWhileListening == isListening => aiReply = ""

\* ----------------------------------------------------------------- C20
\* C20: a Reply Capability call is issued only when the stop() of an
\* activation settles, and stop() is called only by an activation handled
\* while isListening is true and isLoading false; an activation handled
\* while isListening and isLoading are false issues no Reply Capability
\* call, whatever recognizedText holds, and starts a new session that
\* clears it.
C20_SendOnlyFromListeningActivation ==
    [][/\ nSend' # nSend => \E i \in Tasks : StopSettled(i) /\ SendInvoked(i)
       /\ \A i \in Tasks : SendInvoked(i) => StopSettled(i)
       /\ \A i \in Tasks :
             (task[i].pc # "awaitStop" /\ task'[i].pc = "awaitStop") =>
                 (Activation /\ isListening /\ ~isLoading)
       /\ (Activation /\ ~isListening /\ ~isLoading) =>
             /\ nSend' = nSend
             /\ SessionStarted
             /\ recognizedText' = ""
             /\ task'[presses'].pc = "awaitStart"
             /\ ~task'[presses'].sent]_vars

\* a session ended without any stop(), leaving a transcript; the next
\* activation has started a new session and no call was ever made
C20_Witness ==
    /\ nStop = 0 /\ nSend = 0
    /\ ~isLoading
    /\ recognizedText = ""
    /\ \E i \in Tasks :
          /\ i > 1
          /\ task[i].pc = "awaitStart"
          /\ task[i].text # ""

====
